---- MODULE Spec2Model ----
(***************************************************************************)
(* Field-addressing and binary-decoding layer of xrpl-wasm-std:            *)
(* the NFToken accessors, the Blob buffer type, the get_nft ledger-object  *)
(* helpers, the Locator path encoder, and the nft_owner smart escrow       *)
(* (get_first_memo / finish) that consumes them.                           *)
(*                                                                         *)
(* Every library call is one action.  The host is the environment: each    *)
(* host call answers with a signed 32-bit return code and writes a prefix  *)
(* of the caller's zero-initialised receive buffer.                        *)
(***************************************************************************)
EXTENDS Integers, Sequences, FiniteSets, TLC

VARIABLES
    op,         \* name of the operation that ran last ("init" before any)
    hostCalls,  \* host calls that operation issued, in order, with their answers
    out,        \* what the operation returned (Ok / Err / Return / Panic)
    args,       \* the arguments that operation was called with
    readLen,    \* leading receive-buffer bytes the operation used as data
    token,      \* the 32-byte NFTokenID the NFToken wraps
    locator,    \* the Locator instance: [buffer, cur_buffer_index]
    steps,      \* the steps handed to pack on that instance, in call order
    host,       \* fixed simulated host state (idempotence specification)
    results,    \* first result each accessor returned under that host state
    ncalls,     \* accessor calls made so far under that host state
    repeats     \* those that repeated an accessor after a different call

vars == <<op, hostCalls, out, args, readLen, token, locator, steps, host, results, ncalls, repeats>>

----------------------------------------------------------------------------
(* Bounds of the model *)

\* return codes are sampled in windows of this half-width around thresholds
CodeSpan == 2
\* number of distinct byte patterns the simulated host may write
NumPatterns == 2
\* Blob::new is tried with lengths up to this far beyond the capacity
BlobOver == 3
\* locator step sequences are free in this many leading positions
StepPeriod == 2
\* accessor calls made against one fixed host state
MaxCalls == 3
\* pack calls attempted beyond the locator's capacity
MaxOverflow == 1
\* number of distinct accounts an escrow destination is drawn from
NumAccounts == 2

----------------------------------------------------------------------------
(* Program constants *)

NFTID_SIZE == 32
NFT_URI_MAX_SIZE == 256
ACCOUNT_ID_SIZE == 20
BLOB_CAPACITY == 1024
XRPL_CONTRACT_DATA_SIZE == 4096
U32_SIZE == 4
BURNABLE == 1
ONLY_XRP == 2
TRUST_LINE == 4
TRANSFERABLE == 8
U16_MODULUS == 65536
I32_MAX == 2147483647
I32_MIN == -2147483647 - 1

----------------------------------------------------------------------------
(* Integers and bytes *)

Min(a, b) == IF a <= b THEN a ELSE b

Max(a, b) == IF a >= b THEN a ELSE b

\* `code as u16` for a non-negative i32: the low 16 bits
AsU16(code) == code % U16_MODULUS

\* bit test `x & mask != 0` for a single-bit mask
RECURSIVE BitAnd(_, _)
BitAnd(a, b) ==
    IF a = 0 \/ b = 0 THEN 0
    ELSE (IF a % 2 = 1 /\ b % 2 = 1 THEN 1 ELSE 0) + 2 * BitAnd(a \div 2, b \div 2)

\* u32::from_be_bytes over a 4-byte array (bytes below 128 keep it in range)
from_be_bytes(b) == ((b[1] * 256 + b[2]) * 256 + b[3]) * 256 + b[4]

Zeros(n) == [i \in 1..n |-> 0]

----------------------------------------------------------------------------
(* The host side of a call *)

\* byte the host writes at 0-based position i under pattern p (never zero)
HostByte(p, i) == 1 + ((p * 31 + i * 7) % 127)

\* a caller's receive buffer `[0u8; cap]` after a host call that returned
\* code and wrote that many bytes (at most cap) of pattern pat
HostWrite(cap, code, pat) ==
    LET written == Min(Max(code, 0), cap)
    IN  [i \in 1..cap |-> IF i <= written THEN HostByte(pat, i - 1) ELSE 0]

Patterns == 0..(NumPatterns - 1)

Window(t) == (t - CodeSpan)..(t + CodeSpan)

----------------------------------------------------------------------------
(* host::Error and host::Result *)

INTERNAL_ERROR == -1
FIELD_NOT_FOUND == -2
BUFFER_TOO_SMALL == -3
INVALID_PARAMS == -15

\* an error kind together with the numeric code it carries
InternalError == [kind |-> "InternalError", code |-> INTERNAL_ERROR]

\* Error::from_code: the shared code -> error-kind table, with a catch-all
\* that keeps an unrecognised code as an opaque number
from_code(code) ==
    CASE code = INTERNAL_ERROR -> InternalError
      [] code = FIELD_NOT_FOUND -> [kind |-> "FieldNotFound", code |-> code]
      [] code = BUFFER_TOO_SMALL -> [kind |-> "BufferTooSmall", code |-> code]
      [] code = INVALID_PARAMS -> [kind |-> "InvalidParams", code |-> code]
      [] OTHER -> [kind |-> "Other", code |-> code]

\* Error::code
error_code(e) == e.code

Ok(v) == [tag |-> "Ok", val |-> v]

Err(e) == [tag |-> "Err", err |-> e]

\* a plain (non-Result) return value
Return(v) == [tag |-> "Return", val |-> v]

\* the call trapped instead of returning
Panic == [tag |-> "Panic"]

is_ok(r) == r.tag = "Ok"

Some(v) == [some |-> TRUE, data |-> v]

None == [some |-> FALSE]

----------------------------------------------------------------------------
(* Blob *)

\* Blob::new(data, len): asserts len <= data.len()
Blob_new(data, len) ==
    IF len <= Len(data) THEN [data |-> data, len |-> len] ELSE Panic

\* as_slice that hands out the whole backing array
as_slice_whole(blob) == blob.data

\* Blob::as_slice: &self.data[..self.len]
as_slice(blob) == SubSeq(blob.data, 1, blob.len)

----------------------------------------------------------------------------
(* NFToken accessors; each takes the answer of the one host call it makes *)

\* NFToken::flags
flags(code) ==
    IF code >= 0 THEN Ok(AsU16(code)) ELSE Err(from_code(code))

\* the match on self.flags() shared by the three boolean checks
flag_check(code, mask) ==
    LET r == flags(code)
    IN  IF r.tag = "Ok" THEN Ok(BitAnd(r.val, mask) # 0) ELSE Err(r.err)

is_burnable(code) == flag_check(code, BURNABLE)

is_only_xrp(code) == flag_check(code, ONLY_XRP)

\* is_transferable that tests the neighbouring flag
is_transferable_trust(code) == flag_check(code, TRUST_LINE)

is_transferable(code) == flag_check(code, TRANSFERABLE)

\* transfer_fee that treats a zero return code as an error
transfer_fee_strict(code) ==
    IF code > 0 THEN Ok(AsU16(code)) ELSE Err(from_code(code))

\* NFToken::transfer_fee
transfer_fee(code) ==
    IF code >= 0 THEN Ok(AsU16(code)) ELSE Err(from_code(code))

\* NFToken::issuer
issuer(code, pat) ==
    LET account_buf == HostWrite(ACCOUNT_ID_SIZE, code, pat)
    IN  IF code > 0 THEN Ok(account_buf) ELSE Err(from_code(code))

\* NFToken::taxon
taxon(code, pat) ==
    LET taxon_buf == HostWrite(U32_SIZE, code, pat)
    IN  IF code > 0 THEN Ok(from_be_bytes(taxon_buf)) ELSE Err(from_code(code))

\* NFToken::serial
serial(code, pat) ==
    LET serial_buf == HostWrite(U32_SIZE, code, pat)
    IN  IF code > 0 THEN Ok(from_be_bytes(serial_buf)) ELSE Err(from_code(code))

\* copy_len that is clamped to the Blob buffer only
uri_copy_len_blob_only(actual_len) == Min(actual_len, BLOB_CAPACITY)

\* let copy_len = actual_len.min(uri_buf.len()).min(blob_data.len())
uri_copy_len(actual_len) == Min(Min(actual_len, NFT_URI_MAX_SIZE), BLOB_CAPACITY)

\* NFToken::uri; slicing either buffer beyond its length traps
uri(code, pat) ==
    LET uri_buf == HostWrite(NFT_URI_MAX_SIZE, code, pat)
        copy_len == uri_copy_len(code)
        in_range == copy_len <= NFT_URI_MAX_SIZE /\ copy_len <= BLOB_CAPACITY
        blob_data == [i \in 1..BLOB_CAPACITY |->
                         IF i <= copy_len THEN uri_buf[i] ELSE 0]
        blob == Blob_new(blob_data, copy_len)
    IN  IF code > 0
        THEN (IF ~in_range \/ blob = Panic THEN Panic ELSE Ok(blob))
        ELSE Err(from_code(code))

\* NFToken::is_owned_by
is_owned_by(code, pat) ==
    LET r == uri(code, pat)
    IN  IF r = Panic THEN Panic ELSE Return(is_ok(r))

----------------------------------------------------------------------------
(* ledger_objects::nft *)

\* get_nft(owner, nft)
get_nft(code, pat) ==
    LET data == HostWrite(XRPL_CONTRACT_DATA_SIZE, code, pat)
    IN  IF code > 0 THEN Ok(data) ELSE Err(from_code(code))

\* is_nft_owned_by that accepts a zero return code
is_nft_owned_by_zero(code, pat) == Return(code >= 0)

\* is_nft_owned_by(owner, nft_id)
is_nft_owned_by(code, pat) == Return(is_ok(get_nft(code, pat)))

\* leading receive-buffer bytes each caller uses as data after a successful
\* call that returned byte count n
issuer_read_len(n) == ACCOUNT_ID_SIZE

u32_read_len(n) == U32_SIZE

uri_read_len(n) == uri_copy_len(n)

get_nft_read_len(n) == XRPL_CONTRACT_DATA_SIZE

memo_id_read_len(n) == NFTID_SIZE

----------------------------------------------------------------------------
(* Locator: the path encoder *)

LOCATOR_BUFFER_SIZE == 64
LOCATOR_SIZE == 4

\* sfield codes used by the escrow: (type << 16) | field
Memos == 983049
MemoData == 458765

\* i32::to_le_bytes of a non-negative field code or index
to_le_bytes(v) ==
    <<v % 256, (v \div 256) % 256, (v \div 65536) % 256, (v \div 16777216) % 256>>

\* Locator::new
Locator_new == [buffer |-> Zeros(LOCATOR_BUFFER_SIZE), cur_buffer_index |-> 0]

\* Locator::pack: the locator afterwards and whether the step was accepted
pack(loc, step) ==
    LET cur == loc.cur_buffer_index
        value_bytes == to_le_bytes(step)
    IN  IF cur + LOCATOR_SIZE > LOCATOR_BUFFER_SIZE
        THEN [loc |-> loc, ok |-> FALSE]
        ELSE [loc |-> [buffer |-> [i \in 1..LOCATOR_BUFFER_SIZE |->
                                      IF i > cur /\ i <= cur + LOCATOR_SIZE
                                      THEN value_bytes[i - cur]
                                      ELSE loc.buffer[i]],
                       cur_buffer_index |-> cur + LOCATOR_SIZE],
              ok |-> TRUE]

\* Locator::num_packed_bytes
num_packed_bytes(loc) == loc.cur_buffer_index

\* Locator::get_addr together with the length: the bytes the host is handed
packed_bytes(loc) == SubSeq(loc.buffer, 1, num_packed_bytes(loc))

----------------------------------------------------------------------------
(* The nft_owner smart escrow *)

\* the memo path packed with the index after the field
first_memo_steps_swapped == <<Memos, MemoData, 0>>

\* the steps get_first_memo packs, in program order
first_memo_steps == <<Memos, 0, MemoData>>

\* locator.pack(..) three times on a Locator::new()
first_memo_locator ==
    pack(pack(pack(Locator_new, first_memo_steps[1]).loc,
              first_memo_steps[2]).loc,
         first_memo_steps[3]).loc

\* get_first_memo that reads a zero return code as an absent memo
get_first_memo_absent(code, pat) ==
    LET data == HostWrite(XRPL_CONTRACT_DATA_SIZE, code, pat)
    IN  IF code > 0 THEN Ok(Some(data))
        ELSE IF code = 0 THEN Ok(None)
        ELSE Err(from_code(code))

\* the match on result_code in get_first_memo
get_first_memo(code, pat) ==
    LET data == HostWrite(XRPL_CONTRACT_DATA_SIZE, code, pat)
    IN  IF code > 0 THEN Ok(Some(data))
        ELSE IF code = 0 THEN Err(InternalError)
        ELSE Err(from_code(code))

\* the host call get_first_memo issues
MemoCall(code, pat) ==
    [fn |-> "get_tx_nested_field",
     locator |-> packed_bytes(first_memo_locator),
     locator_len |-> num_packed_bytes(first_memo_locator),
     code |-> code, pat |-> pat]

\* the host call behind current_escrow.get_destination()
DestCall(dest) == [fn |-> "get_destination", result |-> dest]

\* the host call get_nft / NFToken::uri issue
NftCall(owner, id, code, pat) ==
    [fn |-> "get_nft", owner |-> owner, id |-> id, code |-> code, pat |-> pat]

\* finish(): the value returned, the host calls issued, and how many
\* leading memo bytes were taken as the NFT id
finish(memoCode, memoPat, dest, nftCode, nftPat) ==
    LET first == get_first_memo(memoCode, memoPat)
        memoCall == MemoCall(memoCode, memoPat)
    IN  IF first.tag = "Err"
        THEN [ret |-> error_code(first.err), calls |-> <<memoCall>>, read |-> 0]
        ELSE IF ~first.val.some
        THEN [ret |-> 0, calls |-> <<memoCall>>, read |-> 0]
        ELSE
            LET memo == first.val.data
                nft_id == [i \in 1..NFTID_SIZE |-> memo[i]]
                read == memo_id_read_len(memoCode)
            IN  IF dest.tag = "Err"
                THEN [ret |-> error_code(dest.err),
                      calls |-> <<memoCall, DestCall(dest)>>, read |-> read]
                ELSE
                    LET owned == is_nft_owned_by(nftCode, nftPat).val
                    IN  [ret |-> IF owned THEN 1 ELSE 0,
                         calls |-> <<memoCall, DestCall(dest),
                                     NftCall(dest.val, nft_id, nftCode, nftPat)>>,
                         read |-> read]

----------------------------------------------------------------------------
(* Inputs *)

ZeroId == Zeros(NFTID_SIZE)

\* the NFTokenID of the module documentation
DocId ==
    <<0, 11, 5, 57, 195, 91, 85, 170, 9, 107, 166, 216, 122, 110, 108, 150,
      90, 101, 52, 21, 13, 197, 110, 94, 18, 197, 208, 158, 0, 0, 0, 12>>

Tokens == {ZeroId, DocId}

Account(k) == [i \in 1..ACCOUNT_ID_SIZE |-> k]

Accounts == {Account(k) : k \in 1..NumAccounts}

NegCodes == {c \in Window(0) \cup Window(INVALID_PARAMS) : c < 0} \cup {I32_MIN}

\* answers of a call whose return code is the value itself
ValueCodes ==
    NegCodes \cup (0..(2 * TRANSFERABLE - 1)) \cup Window(1000) \cup Window(50000)
        \cup Window(U16_MODULUS) \cup Window(U16_MODULUS + 1000) \cup {I32_MAX}

\* answers of a call that fills a receive buffer of cap bytes
CountCodes(cap) ==
    NegCodes \cup {c \in Window(0) : c >= 0} \cup Window(cap) \cup {I32_MAX}

UriCodes == CountCodes(NFT_URI_MAX_SIZE) \cup Window(BLOB_CAPACITY)

MemoCodes == CountCodes(XRPL_CONTRACT_DATA_SIZE) \cup Window(NFTID_SIZE)

\* outcomes of current_escrow.get_destination()
DestOutcomes == {Ok(a) : a \in Accounts} \cup {Err(from_code(c)) : c \in NegCodes}

\* the caller-supplied buffers Blob::new is tried with
BlobBuffers == {HostWrite(BLOB_CAPACITY, BLOB_CAPACITY, p) : p \in Patterns}

BlobLens == 0..(BLOB_CAPACITY + BlobOver)

----------------------------------------------------------------------------
(* State machine *)

NoArgs == [none |-> TRUE]

NoHost == [none |-> TRUE]

NoResult == [tag |-> "None"]

Accessors ==
    {"flags", "transfer_fee", "issuer", "taxon", "serial", "uri", "is_owned_by",
     "get_nft", "is_nft_owned_by"}

Init ==
    /\ op = "init"
    /\ hostCalls = <<>>
    /\ out = NoResult
    /\ args = NoArgs
    /\ readLen = 0
    /\ token \in Tokens
    /\ locator = Locator_new
    /\ steps = <<>>
    /\ host = NoHost
    /\ results = [a \in Accessors |-> NoResult]
    /\ ncalls = 0
    /\ repeats = 0

\* an operation ran: what it was called with, what it asked the host, what
\* it returned and how much of its receive buffer it took as data
Done(name, a, calls, result, rl) ==
    /\ op' = name
    /\ args' = a
    /\ hostCalls' = calls
    /\ out' = result
    /\ readLen' = rl

\* a host call keyed by the NFTokenID alone
IdCall(fn, code, pat) == [fn |-> fn, id |-> token, code |-> code, pat |-> pat]

\* bytes taken as data: none unless the call succeeded
ReadOnOk(result, n) == IF result.tag = "Ok" THEN n ELSE 0

FlagsCall(code) ==
    Done("flags", [id |-> token], <<IdCall("get_nft_flags", code, 0)>>,
         flags(code), 0)

IsBurnableCall(code) ==
    Done("is_burnable", [id |-> token], <<IdCall("get_nft_flags", code, 0)>>,
         is_burnable(code), 0)

IsOnlyXrpCall(code) ==
    Done("is_only_xrp", [id |-> token], <<IdCall("get_nft_flags", code, 0)>>,
         is_only_xrp(code), 0)

IsTransferableCall(code) ==
    Done("is_transferable", [id |-> token], <<IdCall("get_nft_flags", code, 0)>>,
         is_transferable(code), 0)

TransferFeeCall(code) ==
    Done("transfer_fee", [id |-> token],
         <<IdCall("get_nft_transfer_fee", code, 0)>>, transfer_fee(code), 0)

IssuerCall(code, pat) ==
    Done("issuer", [id |-> token], <<IdCall("get_nft_issuer", code, pat)>>,
         issuer(code, pat), ReadOnOk(issuer(code, pat), issuer_read_len(code)))

TaxonCall(code, pat) ==
    Done("taxon", [id |-> token], <<IdCall("get_nft_taxon", code, pat)>>,
         taxon(code, pat), ReadOnOk(taxon(code, pat), u32_read_len(code)))

\* serial that hands back the value the flags call left behind
SerialCallStale(code, pat) ==
    Done("serial", [id |-> token], <<IdCall("get_nft_serial", code, pat)>>,
         IF op = "flags" /\ out.tag = "Ok" THEN out ELSE serial(code, pat),
         ReadOnOk(serial(code, pat), u32_read_len(code)))

SerialCall(code, pat) ==
    Done("serial", [id |-> token], <<IdCall("get_nft_serial", code, pat)>>,
         serial(code, pat), ReadOnOk(serial(code, pat), u32_read_len(code)))

UriCall(owner, code, pat) ==
    Done("uri", [id |-> token, owner |-> owner],
         <<NftCall(owner, token, code, pat)>>,
         uri(code, pat), ReadOnOk(uri(code, pat), uri_read_len(code)))

IsOwnedByCall(owner, code, pat) ==
    Done("is_owned_by", [id |-> token, owner |-> owner],
         <<NftCall(owner, token, code, pat)>>, is_owned_by(code, pat), 0)

GetNftCall(owner, code, pat) ==
    Done("get_nft", [id |-> token, owner |-> owner],
         <<NftCall(owner, token, code, pat)>>,
         get_nft(code, pat), ReadOnOk(get_nft(code, pat), get_nft_read_len(code)))

IsNftOwnedByCall(owner, code, pat) ==
    Done("is_nft_owned_by", [id |-> token, owner |-> owner],
         <<NftCall(owner, token, code, pat)>>, is_nft_owned_by(code, pat), 0)

\* one library call per invocation of the contract, on fresh stack buffers
Fresh == op = "init"

Idle == UNCHANGED <<token, locator, steps, host, results, ncalls, repeats>>

Flags == Fresh /\ \E code \in ValueCodes : FlagsCall(code) /\ Idle

IsBurnable == Fresh /\ \E code \in ValueCodes : IsBurnableCall(code) /\ Idle

IsOnlyXrp == Fresh /\ \E code \in ValueCodes : IsOnlyXrpCall(code) /\ Idle

IsTransferable == Fresh /\ \E code \in ValueCodes : IsTransferableCall(code) /\ Idle

TransferFee == Fresh /\ \E code \in ValueCodes : TransferFeeCall(code) /\ Idle

Issuer ==
    Fresh /\ \E code \in CountCodes(ACCOUNT_ID_SIZE), pat \in Patterns :
        IssuerCall(code, pat) /\ Idle

Taxon ==
    Fresh /\ \E code \in CountCodes(U32_SIZE), pat \in Patterns : TaxonCall(code, pat) /\ Idle

Serial ==
    Fresh /\ \E code \in CountCodes(U32_SIZE), pat \in Patterns : SerialCall(code, pat) /\ Idle

Uri ==
    Fresh /\ \E owner \in Accounts, code \in UriCodes, pat \in Patterns :
        UriCall(owner, code, pat) /\ Idle

IsOwnedBy ==
    Fresh /\ \E owner \in Accounts, code \in UriCodes, pat \in Patterns :
        IsOwnedByCall(owner, code, pat) /\ Idle

GetNft ==
    Fresh /\ \E owner \in Accounts, code \in CountCodes(XRPL_CONTRACT_DATA_SIZE),
       pat \in Patterns :
        GetNftCall(owner, code, pat) /\ Idle

IsNftOwnedBy ==
    Fresh /\ \E owner \in Accounts, code \in CountCodes(XRPL_CONTRACT_DATA_SIZE),
       pat \in Patterns :
        IsNftOwnedByCall(owner, code, pat) /\ Idle

\* Blob::new(data, len)
BlobNew ==
    Fresh /\ \E data \in BlobBuffers, len \in BlobLens :
        /\ Done("Blob_new", [data |-> data, len |-> len], <<>>,
                LET b == Blob_new(data, len)
                IN  IF b = Panic THEN Panic ELSE Return(b),
                0)
        /\ Idle

\* Blob::new(data, len).as_slice()
BlobAsSlice ==
    Fresh /\ \E data \in BlobBuffers, len \in BlobLens :
        /\ Done("as_slice", [data |-> data, len |-> len], <<>>,
                LET b == Blob_new(data, len)
                IN  IF b = Panic THEN Panic ELSE Return(as_slice(b)),
                0)
        /\ Idle

\* get_first_memo(): builds its locator, then one host call
GetFirstMemo ==
    Fresh /\ \E code \in MemoCodes, pat \in Patterns :
        /\ Done("get_first_memo", NoArgs, <<MemoCall(code, pat)>>,
                get_first_memo(code, pat), 0)
        /\ locator' = first_memo_locator
        /\ steps' = first_memo_steps
        /\ UNCHANGED <<token, host, results, ncalls, repeats>>

\* an answer is drawn only for a query finish() gets to issue
DestAsked(memoCode, memoPat) == is_ok(get_first_memo(memoCode, memoPat))

DestAnswers(memoCode, memoPat) ==
    IF DestAsked(memoCode, memoPat) THEN DestOutcomes ELSE {Err(InternalError)}

NftAnswers(memoCode, memoPat, dest) ==
    IF DestAsked(memoCode, memoPat) /\ is_ok(dest)
    THEN CountCodes(XRPL_CONTRACT_DATA_SIZE) \X Patterns
    ELSE {<<0, 0>>}

\* finish(): the escrow's finish condition
Finish ==
    Fresh /\ \E memoCode \in MemoCodes, memoPat \in Patterns :
        \E dest \in DestAnswers(memoCode, memoPat) :
            \E nft \in NftAnswers(memoCode, memoPat, dest) :
                LET f == finish(memoCode, memoPat, dest, nft[1], nft[2])
                IN  /\ Done("finish", NoArgs, f.calls, Return(f.ret), f.read)
                    /\ locator' = first_memo_locator
                    /\ steps' = first_memo_steps
                    /\ UNCHANGED <<token, host, results, ncalls, repeats>>

Next ==
    \/ Flags
    \/ IsBurnable
    \/ IsOnlyXrp
    \/ IsTransferable
    \/ TransferFee
    \/ Issuer
    \/ Taxon
    \/ Serial
    \/ Uri
    \/ IsOwnedBy
    \/ GetNft
    \/ IsNftOwnedBy
    \/ GetFirstMemo
    \/ Finish

Spec == Init /\ [][Next]_vars

NextBlob ==
    \/ BlobNew
    \/ BlobAsSlice

SpecBlob == Init /\ [][NextBlob]_vars

----------------------------------------------------------------------------
(* The Locator on its own: new(), then any run of pack(step) *)

\* field selectors and array indices a step is drawn from
StepValues == {Memos, MemoData, 0, 1}

\* step sequences explored: free in the first StepPeriod positions, then
\* repeating with that period
StepChoices ==
    IF Len(steps) < StepPeriod
    THEN StepValues
    ELSE {steps[Len(steps) - StepPeriod + 1]}

MaxSteps == (LOCATOR_BUFFER_SIZE \div LOCATOR_SIZE) + MaxOverflow

\* Locator::new()
LocatorNew ==
    /\ op # "Locator_new"
    /\ Done("Locator_new", NoArgs, <<>>, NoResult, 0)
    /\ locator' = Locator_new
    /\ steps' = <<>>
    /\ UNCHANGED <<token, host, results, ncalls, repeats>>

\* locator.pack(step)
Pack ==
    /\ Len(steps) < MaxSteps
    /\ \E step \in StepChoices :
        LET r == pack(locator, step)
        IN  /\ Done("pack", [step |-> step], <<>>, Return(r.ok), 0)
            /\ locator' = r.loc
            /\ steps' = Append(steps, step)
            /\ UNCHANGED <<token, host, results, ncalls, repeats>>

NextLocator ==
    \/ LocatorNew
    \/ Pack
    \/ GetFirstMemo

SpecLocator == Init /\ [][NextLocator]_vars

----------------------------------------------------------------------------
(* Accessors called repeatedly against one unchanged host state *)

HostFns ==
    {"get_nft_flags", "get_nft_transfer_fee", "get_nft_issuer", "get_nft_taxon",
     "get_nft_serial", "get_nft"}

\* return codes a fixed host answers with: an error, zero, a byte count
IdemCodes == <<INTERNAL_ERROR, 0, U32_SIZE>>

FnIndex(fn) ==
    CASE fn = "get_nft_flags" -> 0
      [] fn = "get_nft_transfer_fee" -> 1
      [] fn = "get_nft_issuer" -> 2
      [] fn = "get_nft_taxon" -> 3
      [] fn = "get_nft_serial" -> 4
      [] fn = "get_nft" -> 5

\* host states sampled: the host functions answer with different codes and
\* byte patterns, rotated through IdemCodes and Patterns
HostStates ==
    {[fn \in HostFns |->
         [code |-> IdemCodes[((h + FnIndex(fn)) % Len(IdemCodes)) + 1],
          pat |-> (p + FnIndex(fn)) % NumPatterns]] :
        h \in 1..Len(IdemCodes), p \in Patterns}

\* the owner every owner-taking accessor is called with
IdemOwner == Account(1)

InitIdem ==
    /\ op = "init"
    /\ hostCalls = <<>>
    /\ out = NoResult
    /\ args = NoArgs
    /\ readLen = 0
    /\ token \in Tokens
    /\ locator = Locator_new
    /\ steps = <<>>
    /\ host \in HostStates
    /\ results = [a \in Accessors |-> NoResult]
    /\ ncalls = 0
    /\ repeats = 0

\* the observer notes the first result of accessor a and counts the call
Observe(a) ==
    /\ ncalls < MaxCalls
    /\ ncalls' = ncalls + 1
    /\ repeats' = repeats + (IF results[a] # NoResult /\ op # a THEN 1 ELSE 0)
    /\ results' = IF results[a] = NoResult
                  THEN [results EXCEPT ![a] = out']
                  ELSE results
    /\ UNCHANGED <<token, host, locator, steps>>

IdemFlags == FlagsCall(host["get_nft_flags"].code) /\ Observe("flags")

IdemTransferFee ==
    TransferFeeCall(host["get_nft_transfer_fee"].code) /\ Observe("transfer_fee")

IdemIssuer ==
    /\ IssuerCall(host["get_nft_issuer"].code, host["get_nft_issuer"].pat)
    /\ Observe("issuer")

IdemTaxon ==
    /\ TaxonCall(host["get_nft_taxon"].code, host["get_nft_taxon"].pat)
    /\ Observe("taxon")

IdemSerial ==
    /\ SerialCall(host["get_nft_serial"].code, host["get_nft_serial"].pat)
    /\ Observe("serial")

IdemUri ==
    /\ UriCall(IdemOwner, host["get_nft"].code, host["get_nft"].pat)
    /\ Observe("uri")

IdemIsOwnedBy ==
    /\ IsOwnedByCall(IdemOwner, host["get_nft"].code, host["get_nft"].pat)
    /\ Observe("is_owned_by")

IdemGetNft ==
    /\ GetNftCall(IdemOwner, host["get_nft"].code, host["get_nft"].pat)
    /\ Observe("get_nft")

IdemIsNftOwnedBy ==
    /\ IsNftOwnedByCall(IdemOwner, host["get_nft"].code, host["get_nft"].pat)
    /\ Observe("is_nft_owned_by")

NextIdem ==
    \/ IdemFlags
    \/ IdemTransferFee
    \/ IdemIssuer
    \/ IdemTaxon
    \/ IdemSerial
    \/ IdemUri
    \/ IdemIsOwnedBy
    \/ IdemGetNft
    \/ IdemIsNftOwnedBy

SpecIdem == InitIdem /\ [][NextIdem]_vars

----------------------------------------------------------------------------
(* Properties *)

\* return code of the first host call the last operation issued
Code1 == hostCalls[1].code

Pat1 == hostCalls[1].pat

\* C1: a host return code of exactly 0 makes get_nft fail with the error the
\* shared table gives for 0 and is_nft_owned_by answer false, while
\* get_first_memo fails with InternalError (never Ok, never Ok(None)).
C1_ZeroReturnCode ==
    /\ (op = "get_nft" /\ Code1 = 0) =>
           (out.tag = "Err" /\ out.err = from_code(0))
    /\ (op = "is_nft_owned_by" /\ Code1 = 0) =>
           (out.tag = "Return" /\ out.val = FALSE)
    /\ (op = "get_first_memo" /\ Code1 = 0) =>
           (out.tag = "Err" /\ out.err.kind = "InternalError")

C1_Witness ==
    op = "get_first_memo" /\ Code1 = 0 /\ out.tag = "Err"

\* C2: when the first-memo host call reports the field absent, finish
\* returns 0 (condition not met) rather than an error code.
C2_AbsentMemoNotMet ==
    (op = "finish" /\ from_code(Code1).kind = "FieldNotFound") => out.val = 0

\* C3 as claimed: every return code c >= 0 of the flags and transfer-fee
\* calls comes back as the value c itself.
C3_ValueIsCode ==
    (op \in {"flags", "transfer_fee"} /\ Code1 >= 0) =>
        (out.tag = "Ok" /\ out.val = Code1)

\* C3 amended: a return code 0 <= c <= 65535 comes back as c itself, a
\* larger one as its low 16 bits, a negative one as the error mapped from
\* it; flags() and transfer_fee() never panic.
C3_ValueIsLow16Bits ==
    op \in {"flags", "transfer_fee"} =>
        /\ out.tag # "Panic"
        /\ (Code1 >= 0 /\ Code1 < U16_MODULUS) =>
               (out.tag = "Ok" /\ out.val = Code1)
        /\ Code1 >= U16_MODULUS =>
               /\ out.tag = "Ok"
               /\ out.val \in 0..(U16_MODULUS - 1)
               /\ (Code1 - out.val) % U16_MODULUS = 0
        /\ Code1 < 0 => (out.tag = "Err" /\ out.err = from_code(Code1))

C3_Witness ==
    op = "transfer_fee" /\ Code1 > U16_MODULUS /\ out.tag = "Ok" /\ out.val = 1000

\* C4: after a host call that returned byte count n > 0, taxon(), serial(),
\* finish() and get_nft use no receive-buffer byte at position >= n as data.
C4_CountIsAuthoritative ==
    (op \in {"taxon", "serial", "finish", "get_nft"} /\ Code1 > 0) =>
        readLen <= Code1

\* C5: Blob::new(buffer, n) succeeds for 0 <= n <= 1024 and as_slice() is
\* then exactly the first n bytes; for n > 1024 it panics, so no Blob with
\* len above the capacity comes out of new.
C5_BlobLength ==
    /\ op = "Blob_new" =>
           /\ args.len <= BLOB_CAPACITY =>
                  /\ out.tag = "Return"
                  /\ out.val.len = args.len
                  /\ out.val.data = args.data
           /\ args.len > BLOB_CAPACITY => out.tag = "Panic"
           /\ out.tag = "Return" => out.val.len <= Len(out.val.data)
    /\ op = "as_slice" =>
           /\ args.len <= BLOB_CAPACITY =>
                  /\ out.tag = "Return"
                  /\ Len(out.val) = args.len
                  /\ \A i \in 1..args.len : out.val[i] = args.data[i]
           /\ args.len > BLOB_CAPACITY => out.tag = "Panic"

C5_Witness ==
    op = "as_slice" /\ args.len = BLOB_CAPACITY - 1 /\ out.tag = "Return"

\* the encoding of a step sequence: each step's bytes, in order
RECURSIVE Encode(_)
Encode(ss) ==
    IF ss = <<>> THEN <<>> ELSE to_le_bytes(Head(ss)) \o Encode(Tail(ss))

\* how many steps fit a locator
LocatorRoom == LOCATOR_BUFFER_SIZE \div LOCATOR_SIZE

C7_FlagChecks ==
    LET f == flags(Code1)
        bit == CASE op = "is_burnable" -> 1
                 [] op = "is_only_xrp" -> 2
                 [] op = "is_transferable" -> 8
    IN  op \in {"is_burnable", "is_only_xrp", "is_transferable"} =>
            /\ f.tag = "Err" => (out.tag = "Err" /\ out.err = f.err)
            /\ f.tag = "Ok" =>
                   (out.tag = "Ok" /\ out.val = ((f.val \div bit) % 2 = 1))

C7_Witness ==
    /\ op = "is_transferable"
    /\ Code1 = TRUST_LINE + BURNABLE
    /\ out.tag = "Ok"
    /\ out.val = FALSE

QueryOk(i) ==
    IF hostCalls[i].fn = "get_destination"
    THEN hostCalls[i].result.tag = "Ok"
    ELSE hostCalls[i].code > 0

\* C9: finish() queries first memo, destination, NFT in that order, each at
\* most once, a later one only after every earlier one succeeded; it
\* returns 1 iff all three succeeded, 0 when only the NFT fetch failed, and
\* the error's numeric code when the memo or destination fetch failed.
C9_FinishOrder ==
    op = "finish" =>
        LET n == Len(hostCalls)
            order == <<"get_tx_nested_field", "get_destination", "get_nft">>
        IN  /\ n \in 1..3
            /\ \A i \in 1..n : hostCalls[i].fn = order[i]
            /\ \A i \in 1..(n - 1) : QueryOk(i)
            /\ n < 3 => ~QueryOk(n)
            /\ out.val = 1 <=> (n = 3 /\ QueryOk(3))
            /\ (n = 3 /\ ~QueryOk(3)) => out.val = 0
            /\ n = 3 =>
                   /\ hostCalls[3].owner = hostCalls[2].result.val
                   /\ hostCalls[3].id =
                          [i \in 1..NFTID_SIZE |->
                              IF i <= Code1 THEN HostByte(Pat1, i - 1) ELSE 0]
            /\ n = 2 => out.val = hostCalls[2].result.err.code
            /\ n = 1 => out.val = IF Code1 = 0 THEN INTERNAL_ERROR ELSE Code1

C9_Witness ==
    op = "finish" /\ Len(hostCalls) = 3 /\ QueryOk(3) /\ out.val = 1

\* C10: for every return code c > 0 of the URI host call uri() returns a
\* Blob of length min(c, 256) holding the bytes the host wrote, zero
\* beyond them, and never trips the Blob::new assertion; for c <= 0 it
\* fails; is_owned_by is true exactly when c > 0.
C10_UriBlob ==
    /\ op = "uri" =>
           /\ out.tag # "Panic"
           /\ Code1 <= 0 => out.tag = "Err"
           /\ Code1 > 0 =>
                  /\ out.tag = "Ok"
                  /\ out.val.len = Min(Code1, NFT_URI_MAX_SIZE)
                  /\ Len(out.val.data) = BLOB_CAPACITY
                  /\ \A i \in 1..BLOB_CAPACITY :
                         out.val.data[i] =
                             IF i <= Min(Code1, NFT_URI_MAX_SIZE)
                             THEN HostByte(Pat1, i - 1)
                             ELSE 0
    /\ op = "is_owned_by" =>
           (out.tag = "Return" /\ out.val = (Code1 > 0))

C10_Witness ==
    op = "uri" /\ Code1 > BLOB_CAPACITY /\ out.tag = "Ok"
        /\ out.val.len = NFT_URI_MAX_SIZE

====
